---- MODULE Spec2Model ----
(***************************************************************************)
(* The TiDB client of VectorDBBench (vectordb_bench/backend/clients/tidb): *)
(* the adapter object (tidb.py), its case configuration (config.py), and   *)
(* the database it talks to, seen through the statements the adapter       *)
(* issues.  The database is the environment: DDL takes effect when it is   *)
(* executed, DML becomes visible when its session commits, a session that  *)
(* is closed without a commit loses its pending rows, and any statement    *)
(* may fail (the `fault` parameters of the actions).                       *)
(***************************************************************************)
EXTENDS Integers, Sequences, FiniteSets, TLC

\* ---------------------------------------------------------------- bounds
Dim == 2          \* the dim argument of TiDB.__init__
MaxLen == 11      \* the longest batch handed to insert_embeddings
MaxId == 3        \* identifiers are 1..MaxId (1..MaxLen + 1 for the long batches)
MaxK == 2         \* the largest k handed to search_embedding
MaxPolls == 3     \* polls of one optimize() wait before the catalog must answer
MaxBatch == 25    \* the longest batch whose slicing is followed step by step
MaxKeyId == 2     \* identifiers of the loads that may repeat identifiers
MaxPendingPolls == 16  \* index-build polls of one optimize() before the catalog reports zero

\* ------------------------------------------------------ program constants
workers == 10             \* insert_embeddings: workers = 10
log_every == 15           \* optimize: log_reduce_seq % 15
sleep_secs == 2           \* optimize: time.sleep(2)

None == "None"

\* ------------------------------------------------------------ python dicts
\* A dict is a set of <<key, value>> pairs with distinct keys.
EmptyDict == {}
HasKey(d, k) == \E p \in d : p[1] = k
Get(d, k) == (CHOOSE p \in d : p[1] = k)[2]

\* --------------------------------------------------------------- config.py
MetricTypes == {"L2", "IP", "COSINE", None}

parse_metric(cfg) ==
    IF cfg.metric_type = "L2" THEN "Euclid"
    ELSE IF cfg.metric_type = "IP" THEN "Dot"
    ELSE "Cosine"

TiDBIndexConfig(metric_type) ==
    [cls |-> "TiDBIndexConfig", metric_type |-> metric_type]

\* TiDB.__init__ takes any DBCaseConfig.  Besides TiDBIndexConfig the model
\* draws configurations whose two dicts carry the key the adapter reads,
\* "metric_fn", bound to a distance function of the database.
DistanceFns == {"VEC_L2_DISTANCE", "VEC_COSINE_DISTANCE"}

MetricFnConfig(fn) == [cls |-> "MetricFnConfig", metric_fn |-> fn]

CaseConfigs ==
    {TiDBIndexConfig(m) : m \in MetricTypes} \cup {MetricFnConfig(f) : f \in DistanceFns}

index_param(cfg) ==
    IF cfg.cls = "TiDBIndexConfig"
    THEN {<<"distance", parse_metric(cfg)>>}
    ELSE {<<"metric_fn", cfg.metric_fn>>}

search_param(cfg) ==
    IF cfg.cls = "TiDBIndexConfig"
    THEN EmptyDict
    ELSE {<<"metric_fn", cfg.metric_fn>>}

\* The distance function config.py means for a configuration: the metric of a
\* TiDBIndexConfig (cosine when unspecified), the function of the others.
ConfiguredFn(cfg) ==
    IF cfg.cls = "TiDBIndexConfig"
    THEN (IF cfg.metric_type = "L2" THEN "VEC_L2_DISTANCE"
          ELSE IF cfg.metric_type = "IP" THEN "VEC_NEGATIVE_INNER_PRODUCT"
          ELSE "VEC_COSINE_DISTANCE")
    ELSE cfg.metric_fn

\* ----------------------------------------------------------------- vectors
RECURSIVE SumSeq(_)
SumSeq(s) == IF s = <<>> THEN 0 ELSE Head(s) + SumSeq(Tail(s))

Dot(a, b) == SumSeq([j \in 1..Len(a) |-> a[j] * b[j]])
Norm2(a) == Dot(a, a)
L2Sq(a, b) == SumSeq([j \in 1..Len(a) |-> (a[j] - b[j]) * (a[j] - b[j])])

\* The vector the harness pairs with identifier i: non-zero, non-negative,
\* of differing lengths so that the metrics order rows differently.
VecOf(i, d) ==
    [j \in 1..d |-> IF j = ((i - 1) % d) + 1 THEN i ELSE IF i % 2 = 0 THEN 1 ELSE 0]

\* Whether a is at most as far from q as b is, under the database's function
\* fn.  Cosine distances 1 - a.q/(|a||q|) are compared through their squares
\* (all components are non-negative and no vector is zero).
NotFarther(fn, q, a, b) ==
    IF fn = "VEC_L2_DISTANCE" THEN L2Sq(a, q) <= L2Sq(b, q)
    ELSE IF fn = "VEC_COSINE_DISTANCE"
    THEN Dot(a, q) * Dot(a, q) * Norm2(b) >= Dot(b, q) * Dot(b, q) * Norm2(a)
    ELSE Dot(a, q) >= Dot(b, q)

\* ------------------------------------------------------------ serialisation
MaxVal == MaxId + MaxLen + 1

\* json.dumps(e) / str(query): the text "[x1, x2, ...]" as a token sequence.
RECURSIVE JoinNums(_)
JoinNums(e) ==
    IF e = <<>> THEN <<>>
    ELSE IF Len(e) = 1 THEN <<ToString(e[1])>>
    ELSE <<ToString(e[1]), ",">> \o JoinNums(Tail(e))

json_dumps(e) == <<"[">> \o JoinNums(e) \o <<"]">>

\* The database's reading of a vector literal.
ParseNum(tok) == CHOOSE n \in 0..MaxVal : ToString(n) = tok

ParseVector(text) ==
    LET inner == SubSeq(text, 2, Len(text) - 1)
        n == (Len(inner) + 1) \div 2
    IN  [j \in 1..n |-> ParseNum(inner[2 * j - 1])]

\* uuid.uuid5(uuid.NAMESPACE_DNS, str(m)).bytes: a function of the name alone
\* (SHA-1 collisions are not modelled).
uuid5(m) == <<"NAMESPACE_DNS", ToString(m)>>

\* ------------------------------------------------------------ the database
\* The benchmark table as the database holds it.  index is the distance
\* function of its vector index (None: no index), replica whether a TiFlash
\* replica is enabled, progress the replication progress the catalog reports
\* (1: fully replicated), pending the rows not yet covered by the index.
NoTable ==
    [exists |-> FALSE, dim |-> 0, rows |-> {}, index |-> None,
     replica |-> FALSE, progress |-> 0, pending |-> 0]

Row(i, d) == [uuid |-> uuid5(i), id |-> i, embedding |-> VecOf(i, d)]

\* (mutant) DROP TABLE t: an error when there is no such table.
DbDropTable(d) ==
    IF d.exists THEN [ok |-> TRUE, db |-> NoTable, notes |-> 0]
    ELSE [ok |-> FALSE, db |-> d, notes |-> 0]

\* DROP TABLE IF EXISTS t: no error when there is no such table, only a
\* note ("Unknown table") in the statement's result.
DbDropTableIfExists(d) ==
    [ok |-> TRUE, db |-> NoTable, notes |-> IF d.exists THEN 0 ELSE 1]

\* CREATE TABLE t (uuid BINARY(16) PRIMARY KEY, id BIGINT NOT NULL,
\*                 embedding VECTOR(dim) NOT NULL, VECTOR INDEX ix ((fn(embedding))))
DbCreateTable(d, dim, fn) ==
    IF d.exists \/ fn \notin DistanceFns
    THEN [ok |-> FALSE, db |-> d]
    ELSE [ok |-> TRUE, db |-> [NoTable EXCEPT !.exists = TRUE, !.dim = dim, !.index = fn]]

\* DROP INDEX IF EXISTS ix ON t
DbDropIndexIfExists(d) ==
    IF ~d.exists THEN [ok |-> FALSE, db |-> d]
    ELSE [ok |-> TRUE, db |-> [d EXCEPT !.index = None, !.pending = 0]]

\* ALTER TABLE t SET TIFLASH REPLICA 1
DbSetTiflashReplica(d) ==
    IF ~d.exists THEN [ok |-> FALSE, db |-> d]
    ELSE [ok |-> TRUE, db |-> [d EXCEPT !.replica = TRUE]]

\* CREATE VECTOR INDEX ix ON t ((fn(embedding))) USING HNSW
DbCreateVectorIndex(d, fn) ==
    IF ~d.exists \/ d.index # None \/ fn \notin DistanceFns
    THEN [ok |-> FALSE, db |-> d]
    ELSE [ok |-> TRUE,
          db |-> [d EXCEPT !.index = fn, !.pending = Cardinality(d.rows)]]

\* INSERT INTO t (uuid, id, embedding) VALUES (..), (..): values is the
\* sequence of <<uuid bytes, id, vector text>> bound to the placeholders.
\* The statement is rejected (and inserts nothing) when it has no row, when
\* a vector has not the column's dimension, or on a duplicate primary key.
InsertedRows(values) ==
    {[uuid |-> values[n][1], id |-> values[n][2], embedding |-> ParseVector(values[n][3])]
        : n \in 1..Len(values)}

DbInsertAccepts(d, values) ==
    /\ d.exists
    /\ Len(values) > 0
    /\ \A n \in 1..Len(values) : Len(ParseVector(values[n][3])) = d.dim
    /\ \A n, m \in 1..Len(values) : values[n][1] = values[m][1] => n = m
    /\ \A n \in 1..Len(values) : \A r \in d.rows : r.uuid # values[n][1]

\* (mutant) COMMIT on a table whose uuid column is no key.
DbCommitAcceptsWithoutKey(d, rows) == d.exists

\* COMMIT of a session whose pending rows are `rows`: a primary key taken
\* meanwhile by another session's commit fails it.
DbCommitAccepts(d, rows) ==
    /\ d.exists
    /\ \A r \in rows : \A x \in d.rows : x.uuid # r.uuid

DbCommit(d, rows) == [d EXCEPT !.rows = d.rows \cup rows]

\* SELECT id FROM t ORDER BY fn(embedding, q) LIMIT k: every answer the
\* database may give (ties in any order).
RowOfId(rows, i) == CHOOSE r \in rows : r.id = i

OrderByLimit(rows, fn, q, k) ==
    LET n == IF k < Cardinality(rows) THEN k ELSE Cardinality(rows)
        ids == {r.id : r \in rows}
        D(i) == RowOfId(rows, i).embedding
    IN  {s \in [1..n -> ids] :
            /\ \A a, b \in 1..n : a < b => s[a] # s[b] /\ NotFarther(fn, q, D(s[a]), D(s[b]))
            /\ \A a \in 1..n : \A r \in rows :
                  (\A b \in 1..n : s[b] # r.id) => NotFarther(fn, q, D(s[a]), r.embedding)}

\* ------------------------------------------------------------------ state
VARIABLES
    case_config,   \* the db_case_config argument of __init__
    drop_old,      \* the drop_old argument of __init__
    pc,            \* where the calling (harness) thread is
    scope,         \* "in" while the harness is inside `with db.init():`
    self_conn,     \* self.conn: None or "conn", the scope's connection
    self_cursor,   \* self.cursor: None or "cursor", the scope's cursor
    search_fn,     \* self.search_fn
    session,       \* the connection object the last init() scope opened
    db,            \* the table in the database
    futures,       \* the bulk_insert_embeddings invocations of the current load
    call,          \* the operation in progress (or the last one) and its arguments
    trace,         \* what the calling thread did in that operation, in order
    result,        \* how that operation ended
    faulted        \* whether the database failed a statement of that operation

vars ==
    <<case_config, drop_old, pc, scope, self_conn, self_cursor, search_fn, session,
      db, futures, call, trace, result, faulted>>

\* ----------------------------------------------------------------- records
ClosedSession == [open |-> FALSE, cursor_open |-> FALSE, in_txn |-> FALSE]
FreshSession == [open |-> TRUE, cursor_open |-> TRUE, in_txn |-> FALSE]

Call(op, embeddings, metadata, query, k) ==
    [op |-> op, embeddings |-> embeddings, metadata |-> metadata, query |-> query, k |-> k,
     filters |-> FALSE, timeout |-> FALSE]

SimpleCall(op) == Call(op, <<>>, <<>>, <<>>, 0)

Running == [outcome |-> "running", exc |-> None, count |-> 0, ids |-> <<>>]
Returned == [Running EXCEPT !.outcome = "return"]
Raised(e) == [Running EXCEPT !.outcome = "raise", !.exc = e]

\* An event of the trace: sess is 0 for the scoped connection, n >= 1 for the
\* n-th session the operation opened itself, -1 for no session.
ScopedSess == 0
NoSess == 0 - 1
Ev(sess, what, val) == [sess |-> sess, ev |-> what, val |-> val]

Opened(tr) == Cardinality({n \in 1..Len(tr) : tr[n].ev = "connect"})

\* with self._get_connection() as (conn, cursor): send the statements
\* `stmts` (each <<text, value fetched>>), then the given end ("commit" or
\* "none"), then close cursor and connection.  failAt = n > 0: the n-th
\* statement fails and the session is closed at once.
InOwnSession(tr, stmts, end, failAt) ==
    LET sid == Opened(tr) + 1
        sent == IF failAt = 0 THEN stmts ELSE SubSeq(stmts, 1, failAt)
        evs == [n \in 1..Len(sent) |-> Ev(sid, sent[n][1], sent[n][2])]
    IN  tr \o <<Ev(sid, "connect", 0)>> \o evs
           \o (IF failAt = 0 /\ end = "commit" THEN <<Ev(sid, "commit", 0)>> ELSE <<>>)
           \o <<Ev(sid, "close", 0)>>

\* A method's effect: the table, the trace, the scoped connection and the
\* exception it raises (None: it returns).
Effect(d, tr, sess, exc) == [db |-> d, trace |-> tr, session |-> sess, exc |-> exc]

\* ------------------------------------------------------- schema management
\* TiDB._drop_table
_drop_table(d, tr, sess, fault) ==
    LET r == DbDropTableIfExists(d)
    IN  IF fault \/ ~r.ok
        THEN Effect(d, InOwnSession(tr, <<<<"DROP TABLE IF EXISTS", 0>>>>, "commit", 1),
                    sess, "Error")
        ELSE Effect(r.db,
                    InOwnSession(tr, <<<<"DROP TABLE IF EXISTS", r.notes>>>>, "commit", 0),
                    sess, None)

\* TiDB._create_table: the session is opened before the statement text is
\* built, so a missing "metric_fn" raises inside it, before any statement.
_create_table(cfg, dim, d, tr, sess, fault) ==
    LET index_param_ == index_param(cfg)
    IN  IF ~HasKey(index_param_, "metric_fn")
        THEN Effect(d, InOwnSession(tr, <<>>, "none", 0), sess, "KeyError")
        ELSE LET r == DbCreateTable(d, dim, Get(index_param_, "metric_fn"))
             IN  IF fault \/ ~r.ok
                 THEN Effect(d, InOwnSession(tr, <<<<"CREATE TABLE", 0>>>>, "commit", 1),
                             sess, "Error")
                 ELSE Effect(r.db, InOwnSession(tr, <<<<"CREATE TABLE", 0>>>>, "commit", 0),
                             sess, None)

\* A statement on self.cursor / self.conn reaches the database only while
\* the scope's connection and cursor are open.
Usable(sess) == sess.open /\ sess.cursor_open

\* TiDB._drop_index
_drop_index(conn, cursor, d, tr, sess, fault) ==
    IF conn = None \/ cursor = None
    THEN Effect(d, tr, sess, "AssertionError")
    ELSE LET r == DbDropIndexIfExists(d)
             sent == tr \o <<Ev(ScopedSess, "DROP INDEX IF EXISTS", 0)>>
         IN  IF fault # 0 \/ ~Usable(sess) \/ ~r.ok
             THEN Effect(d, sent, sess, "Error")
             ELSE Effect(r.db, sent \o <<Ev(ScopedSess, "commit", 0)>>,
                         [sess EXCEPT !.in_txn = FALSE], None)

\* (mutant) the index DDL before the replica DDL.
_create_index_first(conn, cursor, d, tr, sess, fault) ==
    IF conn = None \/ cursor = None
    THEN Effect(d, tr, sess, "AssertionError")
    ELSE LET r1 == DbCreateVectorIndex(d, "VEC_COSINE_DISTANCE")
             sent1 == tr \o <<Ev(ScopedSess, "CREATE VECTOR INDEX", 0)>>
             r2 == DbSetTiflashReplica(r1.db)
             sent2 == sent1 \o <<Ev(ScopedSess, "SET TIFLASH REPLICA", 0)>>
         IN  IF fault = 1 \/ ~Usable(sess) \/ ~r1.ok
             THEN Effect(d, sent1, sess, "Error")
             ELSE IF fault = 2 \/ ~r2.ok
             THEN Effect(r1.db, sent2, sess, "Error")
             ELSE Effect(r2.db, sent2 \o <<Ev(ScopedSess, "commit", 0)>>,
                         [sess EXCEPT !.in_txn = FALSE], None)

\* TiDB._create_index: the replica DDL, then the index DDL, whose distance
\* function is the literal VEC_COSINE_DISTANCE, then one commit.
_create_index(conn, cursor, d, tr, sess, fault) ==
    IF conn = None \/ cursor = None
    THEN Effect(d, tr, sess, "AssertionError")
    ELSE LET r1 == DbSetTiflashReplica(d)
             sent1 == tr \o <<Ev(ScopedSess, "SET TIFLASH REPLICA", 0)>>
             r2 == DbCreateVectorIndex(r1.db, "VEC_COSINE_DISTANCE")
             sent2 == sent1 \o <<Ev(ScopedSess, "CREATE VECTOR INDEX", 0)>>
         IN  IF fault = 1 \/ ~Usable(sess) \/ ~r1.ok
             THEN Effect(d, sent1, sess, "Error")
             ELSE IF fault = 2 \/ ~r2.ok
             THEN Effect(r1.db, sent2, sess, "Error")
             ELSE Effect(r2.db, sent2 \o <<Ev(ScopedSess, "commit", 0)>>,
                         [sess EXCEPT !.in_txn = FALSE], None)

\* ------------------------------------------------------------ construction
Init ==
    /\ case_config \in CaseConfigs
    /\ drop_old \in BOOLEAN
    /\ pc = "new"
    /\ scope = "out"
    /\ self_conn = None
    /\ self_cursor = None
    /\ search_fn = None
    /\ session = ClosedSession
    /\ db \in {NoTable,
               [NoTable EXCEPT !.exists = TRUE, !.dim = Dim, !.rows = {Row(1, Dim)},
                               !.index = "VEC_COSINE_DISTANCE"]}
    /\ futures = <<>>
    /\ call = SimpleCall("__init__")
    /\ trace = <<>>
    /\ result = Running
    /\ faulted = FALSE

\* TiDB.__init__ up to `if drop_old:`.
Construct ==
    /\ pc = "new"
    /\ self_conn' = None
    /\ self_cursor' = None
    /\ IF ~HasKey(search_param(case_config), "metric_fn")
       THEN /\ pc' = "unconstructed"
            /\ result' = Raised("KeyError")
            /\ UNCHANGED search_fn
       ELSE /\ search_fn' = Get(search_param(case_config), "metric_fn")
            /\ IF drop_old
               THEN pc' = "init_drop_table" /\ UNCHANGED result
               ELSE pc' = "done" /\ result' = Returned
    /\ UNCHANGED <<case_config, drop_old, scope, session, db, futures, call, trace, faulted>>

\* __init__: self._drop_table()
ConstructDropTable ==
    /\ pc = "init_drop_table"
    /\ \E fault \in BOOLEAN :
          LET e == _drop_table(db, trace, session, fault)
          IN  /\ db' = e.db
              /\ trace' = e.trace
              /\ faulted' = (faulted \/ fault)
              /\ IF e.exc # None
                 THEN pc' = "unconstructed" /\ result' = Raised(e.exc)
                 ELSE pc' = "init_create_table" /\ UNCHANGED result
    /\ UNCHANGED <<case_config, drop_old, scope, self_conn, self_cursor, search_fn,
                   session, futures, call>>

\* __init__: self._create_table()
ConstructCreateTable ==
    /\ pc = "init_create_table"
    /\ \E fault \in BOOLEAN :
          LET e == _create_table(case_config, Dim, db, trace, session, fault)
          IN  /\ db' = e.db
              /\ trace' = e.trace
              /\ faulted' = (faulted \/ fault)
              /\ IF e.exc # None
                 THEN pc' = "unconstructed" /\ result' = Raised(e.exc)
                 ELSE pc' = "done" /\ result' = Returned
    /\ UNCHANGED <<case_config, drop_old, scope, self_conn, self_cursor, search_fn,
                   session, futures, call>>

\* ------------------------------------------------------------- init() scope
\* Entering `with self.init():` - pymysql.connect, conn.cursor(), then the
\* two assignments; a failed connect raises before either.
init_enter(fault) ==
    IF fault
    THEN [conn |-> None, cursor |-> None, session |-> ClosedSession, scope |-> "out"]
    ELSE [conn |-> "conn", cursor |-> "cursor", session |-> FreshSession, scope |-> "in"]

\* (mutant) the attributes reset after the yield without a finally clause:
\* an exception of the body skips the reset.
init_exit_no_finally(exc) ==
    IF exc
    THEN [conn |-> "conn", cursor |-> "cursor", session |-> ClosedSession, scope |-> "out"]
    ELSE [conn |-> None, cursor |-> None, session |-> ClosedSession, scope |-> "out"]

\* Leaving it, normally or by an exception of the body (exc): the finally
\* clause, then the cursor's and the connection's __exit__.
init_exit(exc) ==
    [conn |-> None, cursor |-> None, session |-> ClosedSession, scope |-> "out"]

EnterScope ==
    /\ pc = "idle"
    /\ scope = "out"
    /\ \E fault \in BOOLEAN :
          LET s == init_enter(fault)
          IN  /\ self_conn' = s.conn
              /\ self_cursor' = s.cursor
              /\ session' = s.session
              /\ scope' = s.scope
              /\ faulted' = fault
              /\ result' = IF fault THEN Raised("Error") ELSE Returned
    /\ call' = SimpleCall("init")
    /\ pc' = "done"
    /\ UNCHANGED <<case_config, drop_old, search_fn, db, futures, trace>>

LeaveScope ==
    /\ pc = "idle"
    /\ scope = "in"
    /\ \E exc \in BOOLEAN :
          LET s == init_exit(exc)
          IN  /\ self_conn' = s.conn
              /\ self_cursor' = s.cursor
              /\ session' = s.session
              /\ scope' = s.scope
              /\ call' = SimpleCall(IF exc THEN "exit_raise" ELSE "exit")
    /\ pc' = "done"
    /\ result' = Returned
    /\ UNCHANGED <<case_config, drop_old, search_fn, db, futures, trace, faulted>>

\* ------------------------------------------------------------------ loader
\* A bulk_insert_embeddings invocation: its arguments, the state of its
\* future (PENDING: not started; RUNNING: INSERT executed in its own session,
\* not committed; FINISHED; CANCELLED), the exception it raised, whether it
\* opened a session of its own and whether it rolled back on self.conn.
Future(embeddings, metadata) ==
    [embeddings |-> embeddings, metadata |-> metadata, st |-> "PENDING", exc |-> None,
     own_session |-> FALSE, shared_rollback |-> FALSE]

Min(a, b) == IF a < b THEN a ELSE b
Max(a, b) == IF a > b THEN a ELSE b

\* bulk_insert_embeddings: the parameters of its INSERT, one
\* (uuid, id, vector text) per pair of zip(metadata, embeddings).
data_tuple_list(embeddings, metadata) ==
    [n \in 1..Min(Len(metadata), Len(embeddings)) |->
        <<uuid5(metadata[n]), metadata[n], json_dumps(embeddings[n])>>]

\* (mutant) batch_size rounded down.
batch_size_floor(total_len) == Max(1, total_len \div workers)

\* insert_embeddings: batch_size
batch_size(total_len) == Max(1, (total_len + workers - 1) \div workers)

\* insert_embeddings: the slices submitted to the executor.
Slices(embeddings, metadata) ==
    LET total_len == Len(embeddings)
        bs == batch_size(total_len)
        starts == {i \in 0..(total_len - 1) : i % bs = 0}
        nth(n) == (n - 1) * bs
    IN  [n \in 1..Cardinality(starts) |->
            Future(SubSeq(embeddings, nth(n) + 1, Min(nth(n) + bs, total_len)),
                   SubSeq(metadata, nth(n) + 1, Min(nth(n) + bs, Len(metadata))))]

\* (mutant) bulk_insert_embeddings without its two asserts.
bulk_execute_unchecked(f, conn, cursor, d, fault) ==
    IF fault \/ ~DbInsertAccepts(d, data_tuple_list(f.embeddings, f.metadata))
    THEN [f EXCEPT !.st = "FINISHED", !.exc = "Error", !.own_session = TRUE,
                   !.shared_rollback = TRUE]
    ELSE [f EXCEPT !.st = "RUNNING", !.own_session = TRUE]

\* bulk_insert_embeddings up to cursor.execute: the asserts, the statement,
\* a session of its own, the INSERT.  On a failure the handler rolls back on
\* self.conn and re-raises.
bulk_execute(f, conn, cursor, d, fault) ==
    IF conn = None \/ cursor = None
    THEN [f EXCEPT !.st = "FINISHED", !.exc = "AssertionError"]
    ELSE IF fault \/ ~DbInsertAccepts(d, data_tuple_list(f.embeddings, f.metadata))
    THEN [f EXCEPT !.st = "FINISHED", !.exc = "Error", !.own_session = TRUE,
                   !.shared_rollback = TRUE]
    ELSE [f EXCEPT !.st = "RUNNING", !.own_session = TRUE]

\* The rows an invocation holds uncommitted in its own session.
PendingRows(f) ==
    IF f.st = "RUNNING" THEN InsertedRows(data_tuple_list(f.embeddings, f.metadata)) ELSE {}

\* (mutant) the rows sent one by one on an autocommitting session: those
\* before the first rejected one are in the table at once.
VisibleAfterExecuteRowwise(d, f) ==
    LET vals == data_tuple_list(f.embeddings, f.metadata)
        good(n) == \A m \in 1..n : Len(ParseVector(vals[m][3])) = d.dim
    IN  IF f.own_session /\ d.exists
        THEN [d EXCEPT !.rows = d.rows \cup
                 {[uuid |-> vals[n][1], id |-> vals[n][2],
                   embedding |-> ParseVector(vals[n][3])] : n \in {m \in 1..Len(vals) : good(m)}}]
        ELSE d

\* What other sessions see of the table after an invocation's execute step.
VisibleAfterExecute(d, f) == d

\* conn.commit() of bulk_insert_embeddings and the end of its session.
bulk_commit(f, d, fault) ==
    IF fault \/ ~DbCommitAccepts(d, PendingRows(f))
    THEN [f |-> [f EXCEPT !.st = "FINISHED", !.exc = "Error", !.shared_rollback = TRUE],
          db |-> d]
    ELSE [f |-> [f EXCEPT !.st = "FINISHED"], db |-> DbCommit(d, PendingRows(f))]

\* self.conn.rollback() in the handler ends the scope's open transaction.
AfterSharedRollback(sess, f) ==
    IF f.shared_rollback THEN [sess EXCEPT !.in_txn = FALSE] ELSE sess

LoadPcs == {"bulk_insert", "ins_wait", "ins_exit"}

WorkerExecute(t) ==
    /\ pc \in LoadPcs
    /\ t \in 1..Len(futures)
    /\ futures[t].st = "PENDING"
    /\ \E fault \in BOOLEAN :
          LET f == bulk_execute(futures[t], self_conn, self_cursor, db, fault)
          IN  /\ futures' = [futures EXCEPT ![t] = f]
              /\ db' = VisibleAfterExecute(db, f)
              /\ session' = AfterSharedRollback(session, f)
              /\ faulted' = (faulted \/ fault)
    /\ UNCHANGED <<case_config, drop_old, pc, scope, self_conn, self_cursor, search_fn,
                   call, trace, result>>

WorkerCommit(t) ==
    /\ pc \in LoadPcs
    /\ t \in 1..Len(futures)
    /\ futures[t].st = "RUNNING"
    /\ \E fault \in BOOLEAN :
          LET r == bulk_commit(futures[t], db, fault)
          IN  /\ futures' = [futures EXCEPT ![t] = r.f]
              /\ db' = r.db
              /\ session' = AfterSharedRollback(session, r.f)
              /\ faulted' = (faulted \/ fault)
    /\ UNCHANGED <<case_config, drop_old, pc, scope, self_conn, self_cursor, search_fn,
                   call, trace, result>>

\* The batches the harness hands over: n fresh identifiers with their
\* vectors, all of the table's dimension ("ok") or the one at position
\* Min(2, n) of another dimension ("dim").
FreshId(d) == 1 + Cardinality({i \in 1..MaxVal : \E r \in d.rows : r.id >= i})

Batch(start, n, kind) ==
    [metadata |-> [j \in 1..n |-> start + j - 1],
     embeddings |-> [j \in 1..n |->
        VecOf(start + j - 1, IF kind = "dim" /\ j = Min(2, n) THEN Dim + 1 ELSE Dim)]]

Batches(d, lens, maxId) ==
    {Batch(FreshId(d), n, kind) : n \in {m \in lens : FreshId(d) + m - 1 <= maxId},
                                  kind \in {"ok", "dim"}}

\* A direct call of bulk_insert_embeddings(embeddings, metadata).
BulkInsertCall(lens, maxId) ==
    /\ pc = "idle"
    /\ \E b \in Batches(db, lens, maxId) :
          /\ call' = Call("bulk_insert_embeddings", b.embeddings, b.metadata, <<>>, 0)
          /\ futures' = <<Future(b.embeddings, b.metadata)>>
    /\ pc' = "bulk_insert"
    /\ UNCHANGED <<case_config, drop_old, scope, self_conn, self_cursor, search_fn,
                   session, db, trace, result, faulted>>

BulkInsertReturn ==
    /\ pc = "bulk_insert"
    /\ futures[1].st = "FINISHED"
    /\ pc' = "done"
    /\ result' = IF futures[1].exc # None THEN Raised(futures[1].exc) ELSE Returned
    /\ UNCHANGED <<case_config, drop_old, scope, self_conn, self_cursor, search_fn,
                   session, db, futures, call, trace, faulted>>

\* insert_embeddings up to the wait: the empty batch returns (0, None); any
\* other is sliced and every slice submitted.
InsertEmbeddings(lens, maxId) ==
    /\ pc = "idle"
    /\ \E b \in Batches(db, lens, maxId) :
          /\ call' = Call("insert_embeddings", b.embeddings, b.metadata, <<>>, 0)
          /\ IF Len(b.embeddings) = 0
             THEN /\ pc' = "done"
                  /\ futures' = <<>>
                  /\ result' = [Returned EXCEPT !.count = 0]
             ELSE /\ pc' = "ins_wait"
                  /\ futures' = Slices(b.embeddings, b.metadata)
                  /\ result' = Running
    /\ UNCHANGED <<case_config, drop_old, scope, self_conn, self_cursor, search_fn,
                   session, db, trace, faulted>>

Done(fs) == {t \in 1..Len(fs) : fs[t].st \in {"FINISHED", "CANCELLED"}}
Failed(fs) == {t \in 1..Len(fs) : fs[t].st = "FINISHED" /\ fs[t].exc # None}

\* concurrent.futures.wait(futures, FIRST_EXCEPTION) returns, then
\* executor.shutdown(wait=False), then future.result() of every done future
\* (the first that failed raises), then future.cancel() of the pending ones.
InsertWait ==
    /\ pc = "ins_wait"
    /\ Done(futures) = 1..Len(futures) \/ Failed(futures) # {}
    /\ pc' = "ins_exit"
    /\ IF Failed(futures) # {}
       THEN /\ \E t \in Failed(futures) : result' = Raised(futures[t].exc)
            /\ UNCHANGED futures
       ELSE /\ result' = [Returned EXCEPT !.count = Len(call.metadata)]
            /\ futures' = [t \in 1..Len(futures) |->
                  IF futures[t].st = "PENDING"
                  THEN [futures[t] EXCEPT !.st = "CANCELLED"] ELSE futures[t]]
    /\ UNCHANGED <<case_config, drop_old, scope, self_conn, self_cursor, search_fn,
                   session, db, call, trace, faulted>>

\* (mutant) the executor left without joining its workers.
JoinedNoWait(fs) == TRUE

\* ThreadPoolExecutor.__exit__, shutdown(wait=True), returns: every worker
\* thread has ended, which it does once the queue of work items is drained.
Joined(fs) == Done(fs) = 1..Len(fs)

\* Leaving `with ThreadPoolExecutor(...)`: shutdown(wait=True) joins the
\* workers; then the return, or the exception on its way out.
InsertExit ==
    /\ pc = "ins_exit"
    /\ Joined(futures)
    /\ pc' = "done"
    /\ UNCHANGED <<case_config, drop_old, scope, self_conn, self_cursor, search_fn,
                   session, db, futures, call, trace, result, faulted>>

\* ------------------------------------------------------------------ search
\* str(query): the text of a Python list.
py_str(query) == <<"[">> \o JoinNums(query) \o <<"]">>

\* (mutant) the ORDER BY bound to VEC_COSINE_DISTANCE, as _create_index binds
\* the index, whatever self.search_fn is.
search_embedding_cosine(cursor, fn, d, sess, query, k, filters, timeout, fault) ==
    IF cursor = None
    THEN {[result |-> Raised("AttributeError"), issued |-> FALSE]}
    ELSE IF fault \/ ~Usable(sess) \/ ~d.exists
    THEN {[result |-> Raised("Error"), issued |-> TRUE]}
    ELSE {[result |-> [Returned EXCEPT !.ids = ids], issued |-> TRUE] :
             ids \in OrderByLimit(d.rows, "VEC_COSINE_DISTANCE",
                                  ParseVector(py_str(query)), k)}

\* search_embedding(query, k, filters, timeout): every way it can end.
\* filters and timeout are parameters the body never reads.
search_embedding(cursor, fn, d, sess, query, k, filters, timeout, fault) ==
    IF cursor = None
    THEN {[result |-> Raised("AttributeError"), issued |-> FALSE]}
    ELSE IF fault \/ ~Usable(sess) \/ ~d.exists
    THEN {[result |-> Raised("Error"), issued |-> TRUE]}
    ELSE {[result |-> [Returned EXCEPT !.ids = ids], issued |-> TRUE] :
             ids \in OrderByLimit(d.rows, fn, ParseVector(py_str(query)), k)}

Queries == {VecOf(1, Dim), [j \in 1..Dim |-> 1]}

Search ==
    /\ pc = "idle"
    /\ \E query \in Queries, k \in 0..MaxK, given \in BOOLEAN, fault \in BOOLEAN :
          \E r \in search_embedding(self_cursor, search_fn, db, session, query, k,
                                    given, given, fault) :
             /\ call' = [Call("search_embedding", <<>>, <<>>, query, k)
                            EXCEPT !.filters = given, !.timeout = given]
             /\ faulted' = fault
             /\ result' = r.result
             /\ trace' = IF r.issued THEN <<Ev(ScopedSess, "SELECT ORDER BY LIMIT", k)>>
                         ELSE <<>>
             /\ session' = IF r.result.outcome = "return"
                           THEN [session EXCEPT !.in_txn = TRUE] ELSE session
    /\ pc' = "done"
    /\ UNCHANGED <<case_config, drop_old, scope, self_conn, self_cursor, search_fn, db,
                   futures>>

\* ---------------------------------------------------------------- optimize
\* What a catalog read gives: the trace, the value of result[0], and the
\* exception (a failed statement, or no row / a NULL to subscript or compare).
Read(tr, value, exc) == [trace |-> tr, value |-> value, exc |-> exc]

\* (mutant) a failed or empty progress read taken for "not ready yet".
_optimize_check_tiflash_replica_progress_quiet(d, tr, fault) ==
    IF fault
    THEN Read(InOwnSession(tr, <<<<"SELECT PROGRESS", 0>>>>, "none", 1), 0, None)
    ELSE IF ~d.exists \/ ~d.replica
    THEN Read(InOwnSession(tr, <<<<"SELECT PROGRESS", 0 - 1>>>>, "none", 0), 0, None)
    ELSE Read(InOwnSession(tr, <<<<"SELECT PROGRESS", d.progress>>>>, "none", 0),
              d.progress, None)

\* (mutant) the progress read with a cap on the retries: the poll after
\* MaxPolls polls of the call gives up when replication is still incomplete.
_optimize_check_tiflash_replica_progress_capped(d, tr, fault) ==
    IF fault
    THEN Read(InOwnSession(tr, <<<<"SELECT PROGRESS", 0>>>>, "none", 1), 0, "Error")
    ELSE IF ~d.exists \/ ~d.replica
    THEN Read(InOwnSession(tr, <<<<"SELECT PROGRESS", 0 - 1>>>>, "none", 0), 0, "TypeError")
    ELSE Read(InOwnSession(tr, <<<<"SELECT PROGRESS", d.progress>>>>, "none", 0),
              d.progress,
              IF d.progress # 1 /\ Opened(tr) >= MaxPolls - 1 THEN "TimeoutError" ELSE None)

\* TiDB._optimize_check_tiflash_replica_progress
_optimize_check_tiflash_replica_progress(d, tr, fault) ==
    IF fault
    THEN Read(InOwnSession(tr, <<<<"SELECT PROGRESS", 0>>>>, "none", 1), 0, "Error")
    ELSE IF ~d.exists \/ ~d.replica
    THEN Read(InOwnSession(tr, <<<<"SELECT PROGRESS", 0 - 1>>>>, "none", 0), 0, "TypeError")
    ELSE Read(InOwnSession(tr, <<<<"SELECT PROGRESS", d.progress>>>>, "none", 0),
              d.progress, None)

\* TiDB._optimize_wait_tiflash_catch_up
CatchUpStmts(d) ==
    <<<<"SET TIDB_ISOLATION_READ_ENGINES", 0>>, <<"commit", 0>>,
      <<"SELECT COUNT(*)", Cardinality(d.rows)>>>>

_optimize_wait_tiflash_catch_up(d, tr, fault) ==
    IF fault # 0
    THEN Read(InOwnSession(tr, CatchUpStmts(d), "none", fault), 0, "Error")
    ELSE IF ~d.exists
    THEN Read(InOwnSession(tr, CatchUpStmts(d), "none", 3), 0, "Error")
    ELSE Read(InOwnSession(tr, CatchUpStmts(d), "none", 0), Cardinality(d.rows), None)

\* TiDB._optimize_compact_tiflash
_optimize_compact_tiflash(d, tr, fault) ==
    IF fault \/ ~d.exists
    THEN Read(InOwnSession(tr, <<<<"ALTER TABLE COMPACT", 0>>>>, "commit", 1), 0, "Error")
    ELSE Read(InOwnSession(tr, <<<<"ALTER TABLE COMPACT", 0>>>>, "commit", 0), 0, None)

\* TiDB._optimize_get_tiflash_index_pending_rows: the SUM over no row is
\* NULL, and optimize's `pending_rows > 0` on it raises.
_optimize_get_tiflash_index_pending_rows(d, tr, fault) ==
    IF fault
    THEN Read(InOwnSession(tr, <<<<"SELECT SUM(ROWS_STABLE_NOT_INDEXED)", 0>>>>, "none", 1),
              0, "Error")
    ELSE IF ~d.exists \/ d.index = None
    THEN Read(InOwnSession(tr, <<<<"SELECT SUM(ROWS_STABLE_NOT_INDEXED)", 0 - 1>>>>, "none", 0),
              0, "TypeError")
    ELSE Read(InOwnSession(tr, <<<<"SELECT SUM(ROWS_STABLE_NOT_INDEXED)", d.pending>>>>,
                           "none", 0), d.pending, None)

Count(tr, what) == Cardinality({n \in 1..Len(tr) : tr[n].ev = what})

OptPcs == {"opt_create_index", "opt_progress", "opt_catch_up", "opt_compact", "opt_pending"}

\* optimize(): the asserts and self._drop_index()
Optimize ==
    /\ pc = "idle"
    /\ call' = SimpleCall("optimize")
    /\ \E fault \in 0..1 :
          LET e == IF self_conn = None \/ self_cursor = None
                   THEN Effect(db, <<>>, session, "AssertionError")
                   ELSE _drop_index(self_conn, self_cursor, db, <<>>, session, fault)
          IN  /\ db' = e.db
              /\ trace' = e.trace
              /\ session' = e.session
              /\ faulted' = (fault # 0)
              /\ IF e.exc # None
                 THEN pc' = "done" /\ result' = Raised(e.exc)
                 ELSE pc' = "opt_create_index" /\ result' = Running
    /\ UNCHANGED <<case_config, drop_old, scope, self_conn, self_cursor, search_fn, futures>>

\* optimize(): self._create_index()
OptCreateIndex ==
    /\ pc = "opt_create_index"
    /\ \E fault \in 0..2 :
          LET e == _create_index(self_conn, self_cursor, db, trace, session, fault)
          IN  /\ db' = e.db
              /\ trace' = e.trace
              /\ session' = e.session
              /\ faulted' = (faulted \/ fault # 0)
              /\ IF e.exc # None
                 THEN pc' = "done" /\ result' = Raised(e.exc)
                 ELSE pc' = "opt_progress" /\ UNCHANGED result
    /\ UNCHANGED <<case_config, drop_old, scope, self_conn, self_cursor, search_fn,
                   futures, call>>

\* (mutant) the replication wait as a loop that sleeps after every poll and
\* tests the progress afterwards.
OptCheckProgressSleepThenTest ==
    /\ pc = "opt_progress"
    /\ db.progress = 1 \/ Count(trace, "SELECT PROGRESS") < MaxPolls
    /\ \E fault \in BOOLEAN :
          LET r == _optimize_check_tiflash_replica_progress(db, trace, fault)
          IN  /\ faulted' = (faulted \/ fault)
              /\ IF r.exc # None
                 THEN pc' = "done" /\ result' = Raised(r.exc) /\ trace' = r.trace
                 ELSE /\ pc' = IF r.value # 1 THEN "opt_progress" ELSE "opt_catch_up"
                      /\ trace' = r.trace \o <<Ev(NoSess, "log", r.value),
                                               Ev(NoSess, "sleep", sleep_secs)>>
                      /\ UNCHANGED result
    /\ UNCHANGED <<case_config, drop_old, scope, self_conn, self_cursor, search_fn,
                   session, db, futures, call>>

\* optimize(): one turn of the replication wait
OptCheckProgress ==
    /\ pc = "opt_progress"
    /\ db.progress = 1 \/ Count(trace, "SELECT PROGRESS") < MaxPolls
    /\ \E fault \in BOOLEAN :
          LET r == _optimize_check_tiflash_replica_progress(db, trace, fault)
          IN  /\ faulted' = (faulted \/ fault)
              /\ IF r.exc # None
                 THEN pc' = "done" /\ result' = Raised(r.exc) /\ trace' = r.trace
                 ELSE IF r.value # 1
                 THEN /\ pc' = "opt_progress"
                      /\ trace' = r.trace \o <<Ev(NoSess, "log", r.value),
                                               Ev(NoSess, "sleep", sleep_secs)>>
                      /\ UNCHANGED result
                 ELSE pc' = "opt_catch_up" /\ trace' = r.trace /\ UNCHANGED result
    /\ UNCHANGED <<case_config, drop_old, scope, self_conn, self_cursor, search_fn,
                   session, db, futures, call>>

\* optimize(): self._optimize_wait_tiflash_catch_up()
OptCatchUp ==
    /\ pc = "opt_catch_up"
    /\ \E fault \in 0..3 :
          LET r == _optimize_wait_tiflash_catch_up(db, trace, fault)
          IN  /\ faulted' = (faulted \/ fault # 0)
              /\ trace' = r.trace
              /\ IF r.exc # None
                 THEN pc' = "done" /\ result' = Raised(r.exc)
                 ELSE pc' = "opt_compact" /\ UNCHANGED result
    /\ UNCHANGED <<case_config, drop_old, scope, self_conn, self_cursor, search_fn,
                   session, db, futures, call>>

\* optimize(): self._optimize_compact_tiflash()
OptCompact ==
    /\ pc = "opt_compact"
    /\ \E fault \in BOOLEAN :
          LET r == _optimize_compact_tiflash(db, trace, fault)
          IN  /\ faulted' = (faulted \/ fault)
              /\ trace' = r.trace
              /\ IF r.exc # None
                 THEN pc' = "done" /\ result' = Raised(r.exc)
                 ELSE pc' = "opt_pending" /\ UNCHANGED result
    /\ UNCHANGED <<case_config, drop_old, scope, self_conn, self_cursor, search_fn,
                   session, db, futures, call>>

\* (mutant) log_reduce_seq incremented before it is tested.
log_reduce_seq_incremented_first(tr) == Count(tr, "SELECT SUM(ROWS_STABLE_NOT_INDEXED)") + 1

\* optimize(): log_reduce_seq is the number of turns of the index-build wait
\* that found rows pending.
log_reduce_seq(tr) == Count(tr, "SELECT SUM(ROWS_STABLE_NOT_INDEXED)")

\* optimize(): one turn of the index-build wait
OptPendingRows ==
    /\ pc = "opt_pending"
    /\ db.pending = 0 \/ log_reduce_seq(trace) < MaxPendingPolls
    /\ \E fault \in BOOLEAN :
          LET r == _optimize_get_tiflash_index_pending_rows(db, trace, fault)
          IN  /\ faulted' = (faulted \/ fault)
              /\ IF r.exc # None
                 THEN pc' = "done" /\ result' = Raised(r.exc) /\ trace' = r.trace
                 ELSE IF r.value > 0
                 THEN /\ pc' = "opt_pending"
                      /\ trace' = r.trace
                            \o (IF log_reduce_seq(trace) % log_every = 0
                                THEN <<Ev(NoSess, "log", r.value)>> ELSE <<>>)
                            \o <<Ev(NoSess, "sleep", sleep_secs)>>
                      /\ UNCHANGED result
                 ELSE pc' = "done" /\ result' = Returned /\ trace' = r.trace
    /\ UNCHANGED <<case_config, drop_old, scope, self_conn, self_cursor, search_fn,
                   session, db, futures, call>>

\* The database, meanwhile: replication completes, the index build completes.
TiFlashReplicate ==
    /\ pc = "opt_progress"
    /\ db.exists /\ db.replica /\ db.progress # 1
    /\ db' = [db EXCEPT !.progress = 1]
    /\ UNCHANGED <<case_config, drop_old, pc, scope, self_conn, self_cursor, search_fn,
                   session, futures, call, trace, result, faulted>>

TiFlashBuildIndex ==
    /\ pc = "opt_pending"
    /\ db.exists /\ db.pending > 0
    /\ db' = [db EXCEPT !.pending = 0]
    /\ UNCHANGED <<case_config, drop_old, pc, scope, self_conn, self_cursor, search_fn,
                   session, futures, call, trace, result, faulted>>

\* ------------------------------------------------------------ direct calls
\* _drop_table, _create_table, _drop_index and _create_index called on the
\* constructed adapter.
Finish(op, e, fault) ==
    /\ call' = SimpleCall(op)
    /\ db' = e.db
    /\ trace' = e.trace
    /\ session' = e.session
    /\ faulted' = fault
    /\ result' = IF e.exc # None THEN Raised(e.exc) ELSE Returned
    /\ pc' = "done"
    /\ UNCHANGED <<case_config, drop_old, scope, self_conn, self_cursor, search_fn, futures>>

DropTableCall ==
    /\ pc = "idle"
    /\ \E fault \in BOOLEAN :
          Finish("_drop_table", _drop_table(db, <<>>, session, fault), fault)

CreateTableCall ==
    /\ pc = "idle"
    /\ \E fault \in BOOLEAN :
          Finish("_create_table", _create_table(case_config, Dim, db, <<>>, session, fault),
                 fault)

DropIndexCall ==
    /\ pc = "idle"
    /\ \E fault \in 0..1 :
          Finish("_drop_index",
                 _drop_index(self_conn, self_cursor, db, <<>>, session, fault), fault # 0)

CreateIndexCall ==
    /\ pc = "idle"
    /\ \E fault \in 0..2 :
          Finish("_create_index",
                 _create_index(self_conn, self_cursor, db, <<>>, session, fault), fault # 0)

\* The caller has the operation's outcome and goes on to its next call.
Resume ==
    /\ pc = "done"
    /\ pc' = "idle"
    /\ call' = SimpleCall("none")
    /\ futures' = <<>>
    /\ trace' = <<>>
    /\ result' = Running
    /\ faulted' = FALSE
    /\ UNCHANGED <<case_config, drop_old, scope, self_conn, self_cursor, search_fn,
                   session, db>>

\* ---------------------------------------------------------- specifications
SmallLens == {0, 1, 2}
LongLens == {0, MaxLen}

Next ==
    \/ Construct
    \/ ConstructDropTable
    \/ ConstructCreateTable
    \/ EnterScope
    \/ LeaveScope
    \/ BulkInsertCall(SmallLens, MaxId)
    \/ BulkInsertReturn
    \/ InsertEmbeddings(SmallLens, MaxId)
    \/ InsertWait
    \/ InsertExit
    \/ \E t \in 1..workers : WorkerExecute(t)
    \/ \E t \in 1..workers : WorkerCommit(t)
    \/ Search
    \/ Optimize
    \/ OptCreateIndex
    \/ OptCheckProgress
    \/ OptCatchUp
    \/ OptCompact
    \/ OptPendingRows
    \/ TiFlashReplicate
    \/ TiFlashBuildIndex
    \/ DropTableCall
    \/ CreateTableCall
    \/ DropIndexCall
    \/ CreateIndexCall
    \/ Resume

Spec == Init /\ [][Next]_vars

\* The thread that called optimize() keeps running, and the catalog comes to
\* report what optimize() waits for.  (A wait that has reached its bound of
\* polls goes on polling without a change of state.)
Fairness ==
    /\ WF_vars(OptCreateIndex)
    /\ WF_vars(OptCheckProgress)
    /\ WF_vars(OptCatchUp)
    /\ WF_vars(OptCompact)
    /\ WF_vars(OptPendingRows)
    /\ WF_vars(TiFlashReplicate)
    /\ WF_vars(TiFlashBuildIndex)

SpecLive == Init /\ [][Next]_vars /\ Fairness

\* The loader alone, on long batches: the adapter is constructed with
\* drop_old over a configuration it accepts, then only loads are called.
InitLoad ==
    /\ Init
    /\ drop_old
    /\ case_config.cls = "MetricFnConfig"

NextLoad ==
    \/ Construct
    \/ ConstructDropTable
    \/ ConstructCreateTable
    \/ EnterScope
    \/ LeaveScope
    \/ BulkInsertCall(LongLens, MaxLen + 1)
    \/ BulkInsertReturn
    \/ InsertEmbeddings(LongLens, MaxLen + 1)
    \/ InsertWait
    \/ InsertExit
    \/ \E t \in 1..workers : WorkerExecute(t)
    \/ \E t \in 1..workers : WorkerCommit(t)
    \/ Resume

SpecLoad == InitLoad /\ [][NextLoad]_vars

\* The submission loop of insert_embeddings alone, one iteration a step, on
\* every batch length up to MaxBatch: a constructed adapter inside a scope,
\* its table empty, at the entry of the loop.  The trace records the
\* iterations taken, each with its index i of range(0, total_len, batch_size).
InitSlice ==
    /\ case_config = MetricFnConfig("VEC_COSINE_DISTANCE")
    /\ drop_old = TRUE
    /\ pc = "ins_submit"
    /\ scope = "in"
    /\ self_conn = "conn"
    /\ self_cursor = "cursor"
    /\ search_fn = "VEC_COSINE_DISTANCE"
    /\ session = FreshSession
    /\ db = DbCreateTable(NoTable, Dim, "VEC_COSINE_DISTANCE").db
    /\ futures = <<>>
    /\ \E n \in 1..MaxBatch, start \in 1..2 :
          call = Call("insert_embeddings", Batch(start, n, "ok").embeddings,
                      Batch(start, n, "ok").metadata, <<>>, 0)
    /\ trace = <<>>
    /\ result = Running
    /\ faulted = FALSE

\* One iteration: the slice at i, submitted if it is not empty.
SubmitNext ==
    /\ pc = "ins_submit"
    /\ LET total_len == Len(call.embeddings)
           i == Len(trace) * batch_size(total_len)
           batch_embeddings == SubSeq(call.embeddings, i + 1,
                                      Min(i + batch_size(total_len), total_len))
           batch_metadata == SubSeq(call.metadata, i + 1,
                                    Min(i + batch_size(total_len), total_len))
       IN  /\ i < total_len
           /\ trace' = Append(trace, Ev(NoSess, "range", i))
           /\ futures' = IF batch_embeddings # <<>>
                         THEN Append(futures, Future(batch_embeddings, batch_metadata))
                         ELSE futures
    /\ UNCHANGED <<case_config, drop_old, pc, scope, self_conn, self_cursor, search_fn,
                   session, db, call, result, faulted>>

\* The range is exhausted: the loop is left for the wait.
SubmitEnd ==
    /\ pc = "ins_submit"
    /\ Len(trace) * batch_size(Len(call.embeddings)) >= Len(call.embeddings)
    /\ pc' = "ins_submitted"
    /\ UNCHANGED <<case_config, drop_old, scope, self_conn, self_cursor, search_fn,
                   session, db, futures, call, trace, result, faulted>>

NextSlice ==
    \/ SubmitNext
    \/ SubmitEnd

SpecSlice == InitSlice /\ [][NextSlice]_vars

\* The loader on batches that may repeat identifiers, within a batch or from
\* an earlier load, each identifier with either of two vectors: a
\* constructed adapter inside a scope, its table empty.
KeyBatches ==
    LET pairs == (1..MaxKeyId) \X {VecOf(1, Dim), VecOf(2, Dim)}
        seqs == {<<p>> : p \in pairs} \cup {<<p, q>> : p \in pairs, q \in pairs}
    IN  {[metadata |-> [n \in 1..Len(b) |-> b[n][1]],
          embeddings |-> [n \in 1..Len(b) |-> b[n][2]]] : b \in seqs}

InitKeys ==
    /\ case_config = MetricFnConfig("VEC_COSINE_DISTANCE")
    /\ drop_old = TRUE
    /\ pc = "idle"
    /\ scope = "in"
    /\ self_conn = "conn"
    /\ self_cursor = "cursor"
    /\ search_fn = "VEC_COSINE_DISTANCE"
    /\ session = FreshSession
    /\ db = DbCreateTable(NoTable, Dim, "VEC_COSINE_DISTANCE").db
    /\ futures = <<>>
    /\ call = SimpleCall("none")
    /\ trace = <<>>
    /\ result = Running
    /\ faulted = FALSE

\* insert_embeddings(embeddings, metadata) of such a batch, up to the wait.
InsertEmbeddingsKeys ==
    /\ pc = "idle"
    /\ \E b \in KeyBatches :
          /\ call' = Call("insert_embeddings", b.embeddings, b.metadata, <<>>, 0)
          /\ futures' = Slices(b.embeddings, b.metadata)
    /\ pc' = "ins_wait"
    /\ result' = Running
    /\ UNCHANGED <<case_config, drop_old, scope, self_conn, self_cursor, search_fn,
                   session, db, trace, faulted>>

\* bulk_insert_embeddings(embeddings, metadata) of such a batch.
BulkInsertKeys ==
    /\ pc = "idle"
    /\ \E b \in KeyBatches :
          /\ call' = Call("bulk_insert_embeddings", b.embeddings, b.metadata, <<>>, 0)
          /\ futures' = <<Future(b.embeddings, b.metadata)>>
    /\ pc' = "bulk_insert"
    /\ UNCHANGED <<case_config, drop_old, scope, self_conn, self_cursor, search_fn,
                   session, db, trace, result, faulted>>

NextKeys ==
    \/ InsertEmbeddingsKeys
    \/ BulkInsertKeys
    \/ BulkInsertReturn
    \/ InsertWait
    \/ InsertExit
    \/ \E t \in 1..workers : WorkerExecute(t)
    \/ \E t \in 1..workers : WorkerCommit(t)
    \/ Resume

SpecKeys == InitKeys /\ [][NextKeys]_vars

\* ------------------------------------------------------------------ claims
LoadOps == {"insert_embeddings", "bulk_insert_embeddings"}

\* The batch of the load in `call` is valid: every vector has the dimension.
ValidBatch == \A n \in 1..Len(call.embeddings) : Len(call.embeddings[n]) = Dim

\* Every pair of the batch is a row of the table.
BatchStored ==
    \A n \in 1..Len(call.metadata) :
        [uuid |-> uuid5(call.metadata[n]), id |-> call.metadata[n],
         embedding |-> call.embeddings[n]] \in db.rows

\* The table holds as many rows more as the batch is long (the identifiers
\* of a batch lie above every identifier the table held before).
ExactlyBatchMore ==
    Len(call.metadata) > 0 =>
        Cardinality({r \in db.rows : r.id >= call.metadata[1]}) = Len(call.metadata)

LoadedRight ==
    /\ (scope = "in" /\ db.exists /\ ValidBatch /\ ~faulted) =>
          /\ result.outcome = "return"
          /\ call.op = "insert_embeddings" => result.count = Len(call.metadata)
    /\ result.outcome = "return" => BatchStored /\ ExactlyBatchMore

\* C1: a load of a valid batch of N >= 0 pairs inside an init() scope, by
\* insert_embeddings or by one bulk_insert_embeddings call, returns (for
\* insert_embeddings: (N, None)) with the N rows of the batch in the table,
\* and no load returns while a row of its batch is missing.
C1_LoadStoresBatch ==
    (pc = "done" /\ call.op \in LoadOps) => LoadedRight

\* C1 on every batch but the empty one handed to bulk_insert_embeddings.
C1_LoadStoresNonEmptyBatch ==
    (/\ pc = "done"
     /\ call.op \in LoadOps
     /\ call.op = "bulk_insert_embeddings" => Len(call.metadata) > 0) => LoadedRight

\* The identifiers of a sub-batch that are rows of the table.
Present(f) ==
    {f.metadata[n] : n \in {m \in 1..Len(f.metadata) : \E r \in db.rows : r.id = f.metadata[m]}}

Ids(f) == {f.metadata[n] : n \in 1..Len(f.metadata)}

\* C2: an insert_embeddings call one of whose workers failed ends by raising,
\* and in every state each sub-batch is wholly in the table or wholly absent,
\* a failed one absent.
C2_FailureRaisesAtomically ==
    /\ (pc = "done" /\ call.op = "insert_embeddings" /\ Failed(futures) # {}) =>
          result.outcome = "raise"
    /\ \A t \in 1..Len(futures) :
          /\ Present(futures[t]) \in {{}, Ids(futures[t])}
          /\ futures[t].exc # None => Present(futures[t]) = {}

\* C2 witness: an insert_embeddings call has raised; a worker whose
\* two-row sub-batch was rejected left nothing, another committed both rows.
C2_Witness ==
    /\ pc = "done"
    /\ call.op = "insert_embeddings"
    /\ result.outcome = "raise"
    /\ \E t, u \in 1..Len(futures) :
          /\ Len(futures[t].metadata) = 2 /\ futures[t].exc = "Error"
          /\ ~faulted
          /\ Len(futures[u].metadata) = 2 /\ futures[u].st = "FINISHED"
          /\ futures[u].exc = None /\ Present(futures[u]) = Ids(futures[u])

\* The identifiers ids are rows of the table, pairwise distinct, in order of
\* non-decreasing distance from q under fn, and no row left out is nearer
\* than one returned.
NearestInOrder(fn, q, ids) ==
    /\ \A a \in 1..Len(ids) : \E r \in db.rows : r.id = ids[a]
    /\ \A a, b \in 1..Len(ids) :
          a < b => /\ ids[a] # ids[b]
                   /\ NotFarther(fn, q, RowOfId(db.rows, ids[a]).embedding,
                                 RowOfId(db.rows, ids[b]).embedding)
    /\ \A a \in 1..Len(ids) : \A r \in db.rows :
          (\A b \in 1..Len(ids) : ids[b] # r.id) =>
              NotFarther(fn, q, RowOfId(db.rows, ids[a]).embedding, r.embedding)

SearchedRight ==
    (pc = "done" /\ call.op = "search_embedding" /\ scope = "in") =>
        /\ (~faulted /\ db.exists) => result.outcome = "return"
        /\ result.outcome = "return" =>
              /\ Len(result.ids) = Min(call.k, Cardinality(db.rows))
              /\ NearestInOrder(ConfiguredFn(case_config), call.query, result.ids)

SearchReadsOnly ==
    (pc = "idle" /\ call'.op = "search_embedding") => db' = db

\* C3: inside an init() scope search_embedding(query, k) returns min(k, rows)
\* identifiers of rows of the table, nearest first under the configured
\* metric, whatever filters and timeout are, and leaves the table as it was.
C3_Search == []SearchedRight /\ [][SearchReadsOnly]_vars

\* C3 witness: a search with filters given, under the Euclidean metric, has
\* returned two of the table's three rows.
C3_Witness ==
    /\ pc = "done"
    /\ call.op = "search_embedding"
    /\ scope = "in"
    /\ call.filters
    /\ call.k = 2
    /\ case_config = MetricFnConfig("VEC_L2_DISTANCE")
    /\ Cardinality(db.rows) = 3
    /\ result.outcome = "return"
    /\ Len(result.ids) = 2

\* The trace of a construction with drop_old: DROP TABLE IF EXISTS committed
\* in a first session, then CREATE TABLE committed in a second.
DropThenCreate(notes) ==
    <<Ev(1, "connect", 0), Ev(1, "DROP TABLE IF EXISTS", notes), Ev(1, "commit", 0),
      Ev(1, "close", 0),
      Ev(2, "connect", 0), Ev(2, "CREATE TABLE", 0), Ev(2, "commit", 0),
      Ev(2, "close", 0)>>

ConstructedRight ==
    (pc = "done" /\ call.op = "__init__") =>
        IF drop_old
        THEN db.exists /\ db.rows = {} /\ db.dim = Dim /\ db.index # None
             /\ trace \in {DropThenCreate(0), DropThenCreate(1)}
        ELSE trace = <<>>

\* C4: construction with any TiDBIndexConfig completes without an error
\* (unless the database fails a statement); with drop_old it has dropped and
\* created the table, each in its own committed session, and the table is
\* there and empty; without drop_old it has issued nothing.
C4_ConstructionCompletes ==
    /\ (case_config.cls = "TiDBIndexConfig" /\ pc = "unconstructed") => faulted
    /\ ConstructedRight

\* The stage of optimize() a statement belongs to (0: none), with the
\* replica DDL and the index DDL numbered as given.
StageOf(ev, replica, index) ==
    IF ev = "DROP INDEX IF EXISTS" THEN 1
    ELSE IF ev = "SET TIFLASH REPLICA" THEN replica
    ELSE IF ev = "CREATE VECTOR INDEX" THEN index
    ELSE IF ev = "SELECT PROGRESS" THEN 4
    ELSE IF ev \in {"SET TIDB_ISOLATION_READ_ENGINES", "SELECT COUNT(*)"} THEN 5
    ELSE IF ev = "ALTER TABLE COMPACT" THEN 6
    ELSE IF ev = "SELECT SUM(ROWS_STABLE_NOT_INDEXED)" THEN 7
    ELSE 0

\* The statements of the optimize() call in `trace` run through the stages
\* in order, none skipped, and the catch-up read and all after it follow a
\* poll that read progress 1.
StagesInOrder(replica, index) ==
    call.op = "optimize" =>
        LET st(n) == StageOf(trace[n].ev, replica, index)
        IN  \A b \in 1..Len(trace) :
              st(b) > 0 =>
                /\ \A a \in 1..(b - 1) : st(a) <= st(b)
                /\ st(b) > 1 => \E a \in 1..(b - 1) : st(a) = st(b) - 1
                /\ st(b) >= 5 =>
                      \E a \in 1..(b - 1) : trace[a].ev = "SELECT PROGRESS" /\ trace[a].val = 1

\* C5 as stated: drop the index (1), recreate the index (2), enable the
\* replica (3), progress polls (4), catch-up read (5), COMPACT (6),
\* pending-row polls (7), in this order.
C5_StagesAsClaimed == StagesInOrder(3, 2)

\* C5 amended: drop the index (1), enable the replica (2), recreate the
\* index (3), then stages 4 to 7 as stated, the catch-up read and the
\* compaction only after a poll has read progress 1.
C5_StagesAsCoded == StagesInOrder(2, 3)

\* C5 witness: an optimize() call has returned after more than one progress
\* poll and more than one pending-row poll.
C5_Witness ==
    /\ pc = "done"
    /\ call.op = "optimize"
    /\ result.outcome = "return"
    /\ Count(trace, "SELECT PROGRESS") > 1
    /\ Count(trace, "SELECT SUM(ROWS_STABLE_NOT_INDEXED)") > 1

\* An optimize() call in which the database failed a statement, or a
\* catalog read found no row, has ended by raising.
OptimizeAborts ==
    (/\ call.op = "optimize"
     /\ faulted \/ \E n \in 1..Len(trace) : trace[n].val = 0 - 1) =>
        pc = "done" /\ result.outcome = "raise"

\* After the raise nothing more is issued: the next step hands the
\* exception to the caller.
OptimizeStopsAtRaise ==
    (call.op = "optimize" /\ result.outcome = "raise") =>
        pc' = "idle" /\ db' = db /\ trace' = <<>>

\* Every optimize() call begins at the asserts and the index drop.
OptimizeStartsOver ==
    (pc = "idle" /\ call'.op = "optimize") =>
        /\ pc' \in {"done", "opt_create_index"}
        /\ trace' = <<>> \/ trace' = <<Ev(ScopedSess, "DROP INDEX IF EXISTS", 0)>>
              \/ trace' = <<Ev(ScopedSess, "DROP INDEX IF EXISTS", 0), Ev(ScopedSess, "commit", 0)>>
        /\ pc' = "opt_create_index" =>
              trace' = <<Ev(ScopedSess, "DROP INDEX IF EXISTS", 0), Ev(ScopedSess, "commit", 0)>>

\* C6: a statement of optimize() that fails (or a catalog read without a
\* row) makes the call raise and issue nothing further, and every
\* optimize() call starts from the index drop.
C6_OptimizeAbortsAndRestarts ==
    []OptimizeAborts /\ [][OptimizeStopsAtRaise /\ OptimizeStartsOver]_vars

\* C6 witness: an optimize() call that got as far as the index-build wait
\* has raised on a failed pending-row read.
C6_Witness ==
    /\ pc = "done"
    /\ call.op = "optimize"
    /\ result.outcome = "raise"
    /\ faulted
    /\ Count(trace, "sleep") > 0
    /\ trace[Len(trace) - 1].ev = "SELECT SUM(ROWS_STABLE_NOT_INDEXED)"

\* C7: inside an init() scope self.conn and self.cursor are the scope's
\* open connection and cursor; outside one both are None and the session is
\* closed; a scope just entered holds a fresh session.
C7_ScopeOwnsConnection ==
    /\ scope \in {"in", "out"}
    /\ scope = "in" =>
          /\ self_conn = "conn"
          /\ self_cursor = "cursor"
          /\ session.open
          /\ session.cursor_open
    /\ scope = "out" =>
          /\ self_conn = None
          /\ self_cursor = None
          /\ session = ClosedSession
    /\ (pc = "done" /\ call.op = "init" /\ result.outcome = "return") =>
          scope = "in" /\ session = FreshSession
    /\ (pc = "done" /\ call.op = "init" /\ result.outcome = "raise") => scope = "out"
    /\ (pc = "done" /\ call.op \in {"exit", "exit_raise"}) => scope = "out"

\* C7 witness: a scope has been left by an exception of its body.
C7_Witness ==
    /\ pc = "done"
    /\ call.op = "exit_raise"
    /\ self_conn = None
    /\ self_cursor = None
    /\ ~session.open

ScopedOps ==
    {"search_embedding", "optimize", "bulk_insert_embeddings", "_create_index",
     "_drop_index"}

\* Outside a scope a call of one of the scoped operations has sent nothing,
\* opened no session, and ends by raising.
FailedFast ==
    (scope = "out" /\ call.op \in ScopedOps) =>
        /\ trace = <<>>
        /\ session = ClosedSession
        /\ pc \in {"bulk_insert", "done"}
        /\ pc = "done" =>
              /\ result.outcome = "raise"
              /\ result.exc \in {"AssertionError", "AttributeError"}
        /\ \A t \in DOMAIN futures :
              /\ ~futures[t].own_session
              /\ ~futures[t].shared_rollback
              /\ futures[t].st \in {"PENDING", "FINISHED"}
              /\ futures[t].st = "FINISHED" => futures[t].exc = "AssertionError"

\* ... and no step of such a call changes the table.
FailedFastKeepsTable ==
    (scope = "out" /\ (call.op \in ScopedOps \/ call'.op \in ScopedOps)) => db' = db

\* C8: a scoped operation called outside an init() scope fails at once,
\* opens no connection, issues no statement and leaves the table unchanged.
C8_OutsideScopeFailsFast == []FailedFast /\ [][FailedFastKeepsTable]_vars

\* C8 witness: bulk_insert_embeddings of a non-empty batch, the table
\* existing, has raised outside a scope.
C8_Witness ==
    /\ pc = "done"
    /\ scope = "out"
    /\ call.op = "bulk_insert_embeddings"
    /\ Len(call.embeddings) > 0
    /\ \A n \in 1..Len(call.embeddings) : Len(call.embeddings[n]) = db.dim
    /\ db.exists
    /\ result.outcome = "raise"

\* C9: the distance function of the configuration is the one search orders
\* by, the one of the index declared by _create_table, and the one of the
\* index recreated by _create_index, directly or inside optimize().
C9_ConfiguredFnEverywhere ==
    /\ pc \notin {"new", "unconstructed"} => search_fn = ConfiguredFn(case_config)
    /\ (pc = "done" /\ call.op = "_create_table" /\ result.outcome = "return") =>
          db.index = ConfiguredFn(case_config)
    /\ (pc = "done" /\ call.op = "_create_index" /\ result.outcome = "return") =>
          db.index = ConfiguredFn(case_config)
    /\ (call.op = "optimize" /\ pc = "opt_progress") =>
          db.index = ConfiguredFn(case_config) /\ db.index = search_fn

\* _drop_table, directly or in the constructor, returns and leaves no table
\* whether or not there was one, unless the database fails the statement.
DropTableIdempotent ==
    /\ (pc = "idle" /\ call'.op = "_drop_table" /\ ~faulted') =>
          pc' = "done" /\ result'.outcome = "return" /\ db' = NoTable
    /\ (pc = "init_drop_table" /\ ~faulted') =>
          pc' = "init_create_table" /\ db' = NoTable

\* _create_table where _drop_table has left no table returns and leaves an
\* empty table, unless the database fails the statement.
CreateAfterDropSucceeds ==
    /\ (pc = "idle" /\ ~db.exists /\ call'.op = "_create_table" /\ ~faulted') =>
          /\ pc' = "done"
          /\ result'.outcome = "return"
          /\ db'.exists
          /\ db'.rows = {}
    /\ (pc = "init_create_table" /\ ~faulted') =>
          /\ ~db.exists
          /\ pc' = "done"
          /\ result'.outcome = "return"
          /\ db'.exists
          /\ db'.rows = {}

\* C10: _drop_table is idempotent and _create_table after _drop_table
\* succeeds, leaving an existing, empty table.
C10_DropIdempotentCreateAfterDrop ==
    [][DropTableIdempotent /\ CreateAfterDropSucceeds]_vars

\* C10 witness: _drop_table has returned where there was no table to drop.
C10_Witness ==
    /\ pc = "done"
    /\ call.op = "_drop_table"
    /\ result.outcome = "return"
    /\ ~db.exists
    /\ \E n \in 1..Len(trace) :
          trace[n].ev = "DROP TABLE IF EXISTS" /\ trace[n].val = 1

\* _create_table where the table exists returns and changes nothing, unless
\* the database fails the statement.
CreateTableIdempotent ==
    (pc = "idle" /\ db.exists /\ call'.op = "_create_table" /\ ~faulted') =>
        pc' = "done" /\ result'.outcome = "return" /\ db' = db

\* C11: _create_table is an idempotent create: on an existing table it does
\* not fail and leaves the table and its rows as they are.
C11_CreateTableIdempotent == [][CreateTableIdempotent]_vars

\* The least c with c * 10 >= n.
CeilTenth(n) == CHOOSE c \in 0..n : c * 10 >= n /\ (c - 1) * 10 < n

RECURSIVE ConcatField(_, _)
ConcatField(fs, metadataNotEmbeddings) ==
    IF fs = <<>> THEN <<>>
    ELSE (IF metadataNotEmbeddings THEN Head(fs).metadata ELSE Head(fs).embeddings)
            \o ConcatField(Tail(fs), metadataNotEmbeddings)

\* C12: for a batch of N >= 1 pairs the submitted sub-batches are at most
\* 10, none empty, each of size max(1, ceil(N/10)) but a possibly shorter
\* last one, and their concatenation is the batch, identifiers and vectors
\* at the same positions; N = 25 gives eight of size 3 and a last of size 1.
C12_SlicesPartitionBatch ==
    pc = "ins_submitted" =>
        LET N == Len(call.embeddings)
            size == IF CeilTenth(N) > 1 THEN CeilTenth(N) ELSE 1
            len(t) == Len(futures[t].embeddings)
        IN  /\ Len(futures) \in 1..10
            /\ \A t \in 1..Len(futures) :
                  /\ len(t) = Len(futures[t].metadata)
                  /\ len(t) > 0
                  /\ t < Len(futures) => len(t) = size
                  /\ len(t) <= size
                  /\ futures[t].st = "PENDING"
            /\ ConcatField(futures, FALSE) = call.embeddings
            /\ ConcatField(futures, TRUE) = call.metadata
            /\ futures = Slices(call.embeddings, call.metadata)
            /\ N = 25 => [t \in 1..Len(futures) |-> len(t)] = <<3, 3, 3, 3, 3, 3, 3, 3, 1>>

\* C12 witness: the batch of 25 has been submitted, in nine sub-batches.
C12_Witness ==
    /\ pc = "ins_submitted"
    /\ Len(call.embeddings) = 25
    /\ Len(futures) = 9

\* C13: once insert_embeddings has observed the first worker failure, every
\* sub-batch whose worker has not started is cancelled and never executes
\* its INSERT; the workers that were running go on to their commit or
\* failure.
C13_PendingCancelledOnFailure ==
    (call.op = "insert_embeddings" /\ pc \in {"ins_exit", "done"}
        /\ result.outcome = "raise") =>
        \A t \in 1..Len(futures) :
            /\ futures[t].st \in {"RUNNING", "FINISHED", "CANCELLED"}
            /\ futures[t].st = "CANCELLED" => ~futures[t].own_session

\* C14: insert_embeddings has returned or raised only when every submitted
\* worker has finished or been cancelled, none executing nor still to
\* execute its INSERT.
C14_EndsAfterWorkers ==
    (call.op = "insert_embeddings" /\ pc = "done") =>
        \A t \in 1..Len(futures) : futures[t].st \in {"FINISHED", "CANCELLED"}

\* C14 witness: the call has raised on one worker's failure, and another
\* worker has committed its sub-batch.
C14_Witness ==
    /\ call.op = "insert_embeddings"
    /\ pc = "done"
    /\ result.outcome = "raise"
    /\ Len(futures) > 2
    /\ \E t \in 1..Len(futures) : futures[t].exc # None
    /\ \E t \in 1..Len(futures) :
          /\ futures[t].st = "FINISHED"
          /\ futures[t].exc = None
          /\ \A n \in 1..Len(futures[t].metadata) :
                \E r \in db.rows : r.id = futures[t].metadata[n]

\* No worker of the loader has called anything on self.conn.
WorkersOnOwnSessionOnly ==
    call.op = "insert_embeddings" =>
        \A t \in 1..Len(futures) : ~futures[t].shared_rollback

\* No step of a load changes the state of the scope's session.
LoadLeavesScopedSession ==
    (call.op = "insert_embeddings" /\ pc \in LoadPcs) => session' = session

\* C15: the workers of the concurrent loader execute, commit and roll back
\* only on the session each has opened itself, never on self.conn or
\* self.cursor, on the success and on the failure path.
C15_NoSharedConnection == []WorkersOnOwnSessionOnly /\ [][LoadLeavesScopedSession]_vars

\* The positions of the progress polls in a trace, and the polls that read
\* a progress (a failed poll is the last statement of a call that raised).
ProgressPolls(tr) == {n \in 1..Len(tr) : tr[n].ev = "SELECT PROGRESS"}

ProgressRead(n) ==
    /\ n \in ProgressPolls(trace)
    /\ trace[n].val >= 0
    /\ ~(pc = "done" /\ result.outcome = "raise" /\ n + 1 = Len(trace))

SleepsBefore(tr, n) == Cardinality({m \in 1..(n - 1) : tr[m].ev = "sleep"})

\* C16: in the replication wait every poll has a session of its own; a poll
\* that reads another progress than 1 is followed by one sleep of 2 and
\* another poll; the poll that reads 1 is the n-th and last, has n - 1
\* sleeps before it and none after it, and only behind it does the catch-up
\* stage start; the progress values 0, 0, 1 give 3 polls and 2 sleeps.
C16_ProgressPolls ==
    call.op = "optimize" =>
        /\ \A n \in ProgressPolls(trace) :
              /\ trace[n].sess # ScopedSess
              /\ trace[n - 1] = Ev(trace[n].sess, "connect", 0)
              /\ trace[n + 1] = Ev(trace[n].sess, "close", 0)
              /\ \A m \in ProgressPolls(trace) : m # n => trace[m].sess # trace[n].sess
              /\ SleepsBefore(trace, n) =
                    Cardinality({m \in ProgressPolls(trace) : m < n})
        /\ \A n \in 1..Len(trace) :
              (ProgressRead(n) /\ trace[n].val # 1) =>
                  /\ n + 3 <= Len(trace)
                  /\ trace[n + 2] = Ev(NoSess, "log", trace[n].val)
                  /\ trace[n + 3] = Ev(NoSess, "sleep", 2)
                  /\ pc = "opt_progress" \/ \E m \in ProgressPolls(trace) : m > n
        /\ \A n \in 1..Len(trace) :
              (ProgressRead(n) /\ trace[n].val = 1) =>
                  /\ \A m \in ProgressPolls(trace) : m <= n
                  /\ pc # "opt_progress"
                  /\ n + 2 <= Len(trace) => trace[n + 2].ev = "connect"
        /\ pc \in {"opt_catch_up", "opt_compact", "opt_pending"} =>
              \E n \in ProgressPolls(trace) : trace[n].val = 1
        /\ \A n \in 1..Len(trace) :
              trace[n].ev = "SET TIDB_ISOLATION_READ_ENGINES" =>
                  \E m \in ProgressPolls(trace) : m < n /\ trace[m].val = 1
        /\ pc = "opt_progress" =>
              Count(trace, "sleep") = Cardinality(ProgressPolls(trace))

\* C16 witness: the progress values 0, 0, 1 have been read and the catch-up
\* stage is about to start.
C16_Witness ==
    /\ call.op = "optimize"
    /\ pc = "opt_catch_up"
    /\ Cardinality(ProgressPolls(trace)) = 3
    /\ Count(trace, "sleep") = 2
    /\ trace[Len(trace) - 1] = Ev(trace[Len(trace)].sess, "SELECT PROGRESS", 1)

\* The positions of the pending-row polls in a trace, the rank of one among
\* them, and the polls that read a count (a failed poll is the last
\* statement of a call that raised).
PendingPolls(tr) == {n \in 1..Len(tr) : tr[n].ev = "SELECT SUM(ROWS_STABLE_NOT_INDEXED)"}

Rank(tr, n) == Cardinality({m \in PendingPolls(tr) : m <= n})

PendingRead(n) ==
    /\ n \in PendingPolls(trace)
    /\ trace[n].val >= 0
    /\ ~(pc = "done" /\ result.outcome = "raise" /\ n + 1 = Len(trace))

\* C17: in the index-build wait a poll that reads a count above zero is
\* followed by a sleep of 2 and another poll, with a log line before the
\* sleep exactly when the poll is the 1st, 16th, 31st, ...; the first poll
\* that reads zero is the last, and optimize() returns only behind it.
C17_PendingPolls ==
    call.op = "optimize" =>
        /\ \A n \in 1..Len(trace) :
              (PendingRead(n) /\ trace[n].val > 0) =>
                  /\ IF Rank(trace, n) % 15 = 1
                     THEN /\ n + 3 <= Len(trace)
                          /\ trace[n + 2] = Ev(NoSess, "log", trace[n].val)
                          /\ trace[n + 3] = Ev(NoSess, "sleep", 2)
                     ELSE /\ n + 2 <= Len(trace)
                          /\ trace[n + 2] = Ev(NoSess, "sleep", 2)
                  /\ pc = "opt_pending" \/ \E m \in PendingPolls(trace) : m > n
        /\ \A n \in 1..Len(trace) :
              (PendingRead(n) /\ trace[n].val = 0) =>
                  /\ \A m \in PendingPolls(trace) : m <= n
                  /\ n + 1 = Len(trace)
                  /\ pc = "done"
                  /\ result.outcome = "return"
        /\ (pc = "done" /\ result.outcome = "return") =>
              /\ Len(trace) > 1
              /\ trace[Len(trace) - 1].ev = "SELECT SUM(ROWS_STABLE_NOT_INDEXED)"
              /\ trace[Len(trace) - 1].val = 0
              /\ \E m \in 1..Len(trace) : trace[m].ev = "ALTER TABLE COMPACT"
                    /\ \A n \in PendingPolls(trace) : m < n

\* C17 witness: optimize() has returned at its 17th pending-row poll, the
\* 16th having been logged and the 15th not.
C17_Witness ==
    /\ call.op = "optimize"
    /\ pc = "done"
    /\ result.outcome = "return"
    /\ Cardinality(PendingPolls(trace)) = 17
    /\ \E n \in PendingPolls(trace) : Rank(trace, n) = 16 /\ trace[n + 2].ev = "log"
    /\ \E n \in PendingPolls(trace) : Rank(trace, n) = 15 /\ trace[n + 2].ev = "sleep"

\* A statement of the running call has failed: the database failed it, or
\* the table or its replica is not there.
StatementFailed == faulted \/ ~db.exists \/ ~db.replica \/ db.index = None

\* optimize() leaves a wait only on the awaited report or on a failure, and
\* ends only by the return behind the last wait or on a failure.
OptimizeWaits ==
    /\ (pc = "opt_progress" /\ pc' # "opt_progress") =>
          \/ pc' = "opt_catch_up" /\ db.progress = 1 /\ result' = Running
          \/ pc' = "done" /\ result'.outcome = "raise" /\ StatementFailed'
    /\ (pc = "opt_pending" /\ pc' # "opt_pending") =>
          \/ pc' = "done" /\ result'.outcome = "return" /\ db.pending = 0
          \/ pc' = "done" /\ result'.outcome = "raise" /\ StatementFailed'
    /\ (pc \in OptPcs /\ pc' = "done" /\ result'.outcome = "return") =>
          pc = "opt_pending"
    /\ (pc \in OptPcs /\ pc' = "done" /\ result'.outcome = "raise") => StatementFailed'

\* A wait below its bound of polls can always poll again.
OptimizeKeepsPolling ==
    /\ (pc = "opt_progress" /\ Count(trace, "SELECT PROGRESS") < MaxPolls) =>
          ENABLED OptCheckProgress
    /\ (pc = "opt_pending" /\ log_reduce_seq(trace) < MaxPendingPolls) =>
          ENABLED OptPendingRows

\* C18: with the catalog coming to report progress 1 and zero pending rows,
\* an optimize() call ends, by returning unless a statement fails; it has
\* no other way out of a wait than the awaited report, however many polls
\* it takes, and until then it goes on polling.
C18_OptimizeTerminatesIffReported ==
    /\ (call.op = "optimize" /\ pc \in OptPcs) ~> (call.op = "optimize" /\ pc = "done")
    /\ [][OptimizeWaits]_vars
    /\ []OptimizeKeepsPolling

\* C18 witness: optimize() has returned, no statement having failed, after
\* it slept in both waits.
C18_Witness ==
    /\ call.op = "optimize"
    /\ pc = "done"
    /\ result.outcome = "return"
    /\ ~faulted
    /\ db.progress = 1
    /\ db.pending = 0
    /\ \E n \in ProgressPolls(trace) : trace[n].val = 0
    /\ \E n \in PendingPolls(trace) : trace[n].val > 0

\* The key is a function of the identifier alone, different for different
\* identifiers, and it is the key every invocation sends with the identifier.
KeyOfIdentifier ==
    /\ \A i, j \in 1..MaxKeyId : (uuid5(i) = uuid5(j)) <=> (i = j)
    /\ \A t \in 1..Len(futures) :
          LET vals == data_tuple_list(futures[t].embeddings, futures[t].metadata)
          IN  \A n \in 1..Len(vals) :
                vals[n][1] = uuid5(futures[t].metadata[n]) /\ vals[n][2] = futures[t].metadata[n]

\* The table holds at most one row per identifier, under the identifier's key.
OneRowPerIdentifier ==
    \A r \in db.rows :
        /\ r.uuid = uuid5(r.id)
        /\ \A x \in db.rows : x.id = r.id => x = r

\* A sub-batch repeats an identifier, or holds one that is in the table.
Clash(f, d) ==
    \/ \E n, m \in 1..Len(f.metadata) : n # m /\ f.metadata[n] = f.metadata[m]
    \/ \E n \in 1..Len(f.metadata) : \E r \in d.rows : r.id = f.metadata[n]

\* An invocation that ends on such a sub-batch ends by raising, and the
\* table is as it was.
ClashFails ==
    \A t \in 1..Len(futures) :
        (/\ t <= Len(futures')
         /\ futures[t].st # "FINISHED"
         /\ futures'[t].st = "FINISHED"
         /\ Clash(futures[t], db)) =>
            futures'[t].exc # None /\ db' = db

\* C19: the surrogate key is a function of the identifier alone and the
\* table's primary key: the table never holds two rows of one identifier,
\* and a sub-batch with an identifier already in the table, or with one
\* identifier twice, fails and commits none of its rows.
C19_OneRowPerIdentifier ==
    [](KeyOfIdentifier /\ OneRowPerIdentifier) /\ [][ClashFails]_vars

\* C19 witness: of two concurrent workers sent the same identifier with
\* different vectors, one has committed and the other has failed, no
\* statement having been failed by the database otherwise.
C19_Witness ==
    /\ pc = "done"
    /\ call.op = "insert_embeddings"
    /\ Len(call.metadata) = 2
    /\ call.metadata[1] = call.metadata[2]
    /\ call.embeddings[1] # call.embeddings[2]
    /\ ~faulted
    /\ result.outcome = "raise"
    /\ Cardinality({r \in db.rows : r.id = call.metadata[1]}) = 1
    /\ \E t \in 1..2 : futures[t].exc = None /\ futures[3 - t].exc # None

====
